---- MODULE Spec2Model ----
(***************************************************************************)
(* Model of destiny_guardian.py: the export of a Destiny 2 character's     *)
(* equipped items with the applied shader, ornament and visible perks.     *)
(*                                                                         *)
(* Python values are modelled as follows.  A str is the sequence of its    *)
(* characters.  A numeric hash that is None, absent or 0 is 0 (the code    *)
(* only ever tests hashes for truthiness).  A str that is None is NoneStr. *)
(***************************************************************************)
EXTENDS Integers, Sequences, FiniteSets, TLC

\* ------------------------------------------------------------------------
\* Bounds of the model
\* ------------------------------------------------------------------------
MaxChars == 3
MaxClsSockets == 7
MaxItems == 2
MaxSockets == 2
MaxFaults == 2

\* ------------------------------------------------------------------------
\* str helpers
\* ------------------------------------------------------------------------
UpperChars == <<"A","B","C","D","E","F","G","H","I","J","K","L","M",
                "N","O","P","Q","R","S","T","U","V","W","X","Y","Z">>
LowerChars == <<"a","b","c","d","e","f","g","h","i","j","k","l","m",
                "n","o","p","q","r","s","t","u","v","w","x","y","z">>

LowerMap == [c \in {UpperChars[i] : i \in DOMAIN UpperChars} |->
                LowerChars[CHOOSE i \in DOMAIN UpperChars : UpperChars[i] = c]]

LowerChar(c) == IF c \in DOMAIN LowerMap THEN LowerMap[c] ELSE c

\* str.lower()
Lower(s) == [i \in 1..Len(s) |-> LowerChar(s[i])]

\* sub in s
Contains(s, sub) ==
    \E k \in 0..(Len(s) - Len(sub)) : \A i \in 1..Len(sub) : s[k + i] = sub[i]

Digits == <<"0","1","2","3","4","5","6","7","8","9">>

\* str(n) for a natural number n
RECURSIVE Str(_)
Str(n) == IF n < 10 THEN <<Digits[n + 1]>>
          ELSE Str(n \div 10) \o <<Digits[(n % 10) + 1]>>

NoneStr == <<"<None>">>

BoundedSeq(S, n) == UNION {[1..k -> S] : k \in 0..n}

\* ------------------------------------------------------------------------
\* Manifest definitions (DestinyInventoryItemDefinition) used as inputs
\* ------------------------------------------------------------------------
s_shader == <<"s","h","a","d","e","r">>
s_ornament == <<"o","r","n","a","m","e","n","t">>
s_skin == <<"s","k","i","n">>
s_exotic_all_skins == <<"e","x","o","t","i","c","_","a","l","l","_","s","k","i","n","s">>
s_Ornament == <<"O","r","n","a","m","e","n","t">>
s_weapon_frames == <<"w","e","a","p","o","n","_","f","r","a","m","e","s">>
s_Shader == <<"S","h","a","d","e","r">>
s_Shader_Frames == <<"S","h","a","d","e","r",".","F","r","a","m","e","s">>
s_Trait == <<"T","r","a","i","t">>
s_Weapon_Ornament == <<"W","e","a","p","o","n"," ","O","r","n","a","m","e","n","t">>
s_SHADER == <<"S","H","A","D","E","R">>
s_intrinsics == <<"i","n","t","r","i","n","s","i","c","s">>
s_masterwork == <<"m","a","s","t","e","r","w","o","r","k">>
s_Shaders == <<"S","h","a","d","e","r","s">>
s_Auto_Rifle == <<"A","u","t","o"," ","R","i","f","l","e">>
s_Gjallarhorn == <<"G","j","a","l","l","a","r","h","o","r","n">>

PerkKeys == {
    s_intrinsics,
    <<"b","a","r","r","e","l","s">>,
    <<"m","a","g","a","z","i","n","e","s">>,
    <<"f","r","a","m","e","s">>,
    <<"t","r","a","i","t","s">>,
    <<"o","r","i","g","i","n">> }

\*   name      displayProperties.name (NoneStr when absent)
\*   cat_id    plug.plugCategoryIdentifier ("" when absent)
\*   type_name itemTypeDisplayName ("" when absent)
\*   icon      displayProperties.icon (NoneStr when absent)
\*   tier_name itemTypeAndTierDisplayName (NoneStr when absent)
Def(n, c, t) == [name |-> n, cat_id |-> c, type_name |-> t,
                 icon |-> NoneStr, tier_name |-> NoneStr]

ItemDef(n, t, tier, icon) == [name |-> n, cat_id |-> <<>>, type_name |-> t,
                              icon |-> icon, tier_name |-> tier]

\* The pool the classification inputs are drawn from.
DefPool == <<
    Def(s_Shader, s_shader, s_Shader),
    Def(s_Ornament, s_exotic_all_skins, s_Ornament),
    Def(s_Trait, s_weapon_frames, <<>>),
    Def(s_Trait, s_Shader_Frames, s_Trait),
    Def(s_Ornament, <<>>, s_Weapon_Ornament),
    Def(s_Trait, s_intrinsics, s_SHADER),
    Def(s_Trait, s_masterwork, s_Shaders) >>

\* A failed get_entity (any exception) in place of a definition.
LookupFailed == Def(NoneStr, NoneStr, NoneStr)

\* ------------------------------------------------------------------------
\* find_applied_shader_and_ornament / extract_visible_perks
\* A socket is [plugItemHash |-> h, plugHash |-> h] (0: absent).
\* ------------------------------------------------------------------------
Socket(a, b) == [plugItemHash |-> a, plugHash |-> b]

\* lines 164-168 and 196-197: plug.plugItemHash, else the socket's plugHash
PlugHashOf(s) == IF s.plugItemHash # 0 THEN s.plugItemHash ELSE s.plugHash

IsShader(pdef) ==
    Contains(Lower(pdef.cat_id), s_shader) \/ Lower(pdef.type_name) = s_shader

IsOrnament(pdef) ==
    Contains(Lower(pdef.type_name), s_ornament) \/ Contains(Lower(pdef.cat_id), s_skin)

\* Mutant: a later shader or ornament overrides the one already found.
FindStep_LastWins(acc, plug_hash, pdef) ==
    [shader_hash |-> IF IsShader(pdef) THEN plug_hash ELSE acc.shader_hash,
     ornament_hash |-> IF IsOrnament(pdef) THEN plug_hash ELSE acc.ornament_hash]

\* One iteration of the loop of find_applied_shader_and_ornament, once the
\* plug's definition pdef is resolved; acc = [shader_hash, ornament_hash].
FindStep(acc, plug_hash, pdef) ==
    [shader_hash |-> IF acc.shader_hash = 0 /\ IsShader(pdef)
                     THEN plug_hash ELSE acc.shader_hash,
     ornament_hash |-> IF acc.ornament_hash = 0 /\ IsOrnament(pdef)
                       THEN plug_hash ELSE acc.ornament_hash]

\* line 207: the plug is a shader/ornament and is not a perk
PerkSkipped(pdef) ==
    \/ Contains(Lower(pdef.cat_id), s_shader)
    \/ Lower(pdef.type_name) = s_shader
    \/ Contains(Lower(pdef.type_name), s_ornament)
    \/ Contains(Lower(pdef.cat_id), s_skin)

\* line 210
PerkKept(pdef) == \E key \in PerkKeys : Contains(Lower(pdef.cat_id), key)

\* One iteration of the loop of extract_visible_perks.
PerkStep(perks, plug_hash, pdef) ==
    IF ~PerkSkipped(pdef) /\ PerkKept(pdef) THEN Append(perks, plug_hash) ELSE perks

PerkLimit == 6

\* perks[:6]
Truncate(perks) == SubSeq(perks, 1, IF Len(perks) < PerkLimit THEN Len(perks) ELSE PerkLimit)

NoCosmetics == [shader_hash |-> 0, ornament_hash |-> 0]

\* ------------------------------------------------------------------------
\* pick_character_id
\* ------------------------------------------------------------------------
Date(y, mo, d, h, mi, s) == [Y |-> y, M |-> mo, D |-> d, h |-> h, mi |-> mi, s |-> s]

IsLeap(y) == (y % 4 = 0 /\ y % 100 # 0) \/ y % 400 = 0

DaysInMonth(y, mo) ==
    IF mo = 2 THEN (IF IsLeap(y) THEN 29 ELSE 28)
    ELSE IF mo \in {4, 6, 9, 11} THEN 30 ELSE 31

\* time.strptime(text[:19], "%Y-%m-%dT%H:%M:%S") succeeds
Parses(dt) ==
    /\ dt.M \in 1..12
    /\ dt.D \in 1..DaysInMonth(dt.Y, dt.M)
    /\ dt.h \in 0..23
    /\ dt.mi \in 0..59
    /\ dt.s \in 0..61

DaysFromCivil(y, mo, d) ==
    LET yy  == IF mo <= 2 THEN y - 1 ELSE y
        era == yy \div 400
        yoe == yy - era * 400
        mp  == (mo + 9) % 12
        doy == (153 * mp + 2) \div 5 + d - 1
        doe == yoe * 365 + yoe \div 4 - yoe \div 100 + doy
    IN  era * 146097 + doe - 719468

\* int(time.mktime(...)), the local zone at a fixed offset of 0
Mktime(dt) == DaysFromCivil(dt.Y, dt.M, dt.D) * 86400 + dt.h * 3600 + dt.mi * 60 + dt.s

CharIds == {"c1", "c2", "c3"}

NoCharData == [present |-> FALSE, dateLastPlayed |-> Date(0, 0, 0, 0, 0, 0)]
CharData(dt) == [present |-> TRUE, dateLastPlayed |-> dt]

Returned(cid) == [kind |-> "return", id |-> cid]
Raised(exc) == [kind |-> exc, id |-> ""]

\* The loop of lines 223-230 from position i on; "" is latest = None.
RECURSIVE LatestFrom(_, _, _, _, _)
LatestFrom(char_ids, chars, i, latest, latest_time) ==
    IF i > Len(char_ids) THEN Returned(IF latest # "" THEN latest ELSE char_ids[1])
    ELSE LET cdata == chars[char_ids[i]] IN
         IF ~cdata.present THEN LatestFrom(char_ids, chars, i + 1, latest, latest_time)
         ELSE IF ~Parses(cdata.dateLastPlayed) THEN Raised("ValueError")
         ELSE LET mtime == Mktime(cdata.dateLastPlayed) IN
              IF mtime > latest_time
              THEN LatestFrom(char_ids, chars, i + 1, char_ids[i], mtime)
              ELSE LatestFrom(char_ids, chars, i + 1, latest, latest_time)

\* profile = [characterIds |-> sequence, characters |-> [CharIds -> data]]
pick_character_id(profile, choice) ==
    IF Len(profile.characterIds) = 0 THEN Raised("BungieError")
    ELSE IF choice = "latest"
         THEN LatestFrom(profile.characterIds, profile.characters, 1, "", 0)
         ELSE Returned(choice)


\* ------------------------------------------------------------------------
\* The run of main(): inputs
\* ------------------------------------------------------------------------
s_Helmet == <<"H","e","l","m","e","t">>
s_icon111 == <<"/","i","/","1","1","1",".","j","p","g">>

\* The manifest the single-entity endpoint answers from.
Catalog == [h \in {111, 222, 7, 8, 9} |->
    CASE h = 111 -> ItemDef(s_Gjallarhorn, s_Auto_Rifle, NoneStr, s_icon111)
      [] h = 222 -> ItemDef(NoneStr, <<>>, s_Helmet, NoneStr)
      [] h = 7   -> DefPool[1]
      [] h = 8   -> DefPool[2]
      [] h = 9   -> DefPool[3]]

Absent == "<absent>"
File(a, r) == [exists |-> TRUE, data |-> [access_token |-> a, refresh_token |-> r]]
NoFile == [exists |-> FALSE, data |-> [access_token |-> Absent, refresh_token |-> Absent]]

TokenFiles == {NoFile, File(Absent, Absent), File("", "r0"), File(Absent, "r0"),
               File("a0", Absent), File("a0", "r0")}

\* dict.get(k, default)
Get(d, k, default) == IF d[k] = Absent THEN default ELSE d[k]

\* Mutant: the refreshed fields are not merged into the stored record.
Update_KeepOld(tokens, new_tokens) == tokens

\* tokens.update(new_tokens)
Update(tokens, new_tokens) ==
    [k \in DOMAIN tokens |-> IF new_tokens[k] # Absent THEN new_tokens[k] ELSE tokens[k]]

\* What a successful refresh returns.
RefreshBodies == {[access_token |-> a, refresh_token |-> "r1"] : a \in {"a1", "a2"}}

Membership(t, id) == [membershipType |-> t, membershipId |-> id]
NoMembership == Membership(0, "")
MembershipLists == {<<>>, <<Membership(2, "m2"), Membership(3, "m1")>>}

ItemEntry(h, inst) == [itemHash |-> h, itemInstanceId |-> inst]
ItemEntries == {ItemEntry(111, "i1"), ItemEntry(0, "i2"), ItemEntry(222, "")}
SocketPool == {Socket(7, 9), Socket(0, 8), Socket(9, 0), Socket(0, 0)}

Reverse(s) == [i \in 1..Len(s) |-> s[Len(s) + 1 - i]]
Range(s) == {s[i] : i \in DOMAIN s}

D1 == Date(2024, 1, 5, 10, 0, 0)
D2 == Date(2024, 3, 1, 8, 30, 0)
D3 == Date(2023, 12, 31, 23, 59, 59)
BadDate == Date(2024, 13, 1, 0, 0, 0)

NoDates == [c \in CharIds |-> NoCharData]

\* A GetProfile response: the first listed character wears items, any other
\* the same items in reverse order; the sockets are those of instance "i1".
Profile(ids, chars, items, socks) ==
    [characterIds |-> ids,
     characters   |-> chars,
     equipment    |-> [c \in Range(ids) |-> IF c = ids[1] THEN items ELSE Reverse(items)],
     sockets      |-> [i \in {"i1"} |-> socks]]

NoProfile == Profile(<<>>, NoDates, <<>>, <<>>)

CharVariants == {
    <<(<<>>), NoDates>>,
    <<(<<"c1", "c2">>), NoDates>>,
    <<(<<"c1", "c2">>), [NoDates EXCEPT !["c1"] = CharData(D1), !["c2"] = CharData(D2)]>>,
    <<(<<"c2", "c1">>), [NoDates EXCEPT !["c2"] = CharData(BadDate)]>> }

Profiles ==
    {Profile(<<"c1">>, NoDates, items, socks) :
        items \in BoundedSeq(ItemEntries, MaxItems),
        socks \in {<<Socket(0, 0)>>, <<Socket(7, 0)>>}}
    \cup {Profile(<<"c1">>, NoDates, <<ItemEntry(111, "i1")>>, socks) :
        socks \in BoundedSeq(SocketPool, MaxSockets)}
    \cup {Profile(v[1], v[2], <<ItemEntry(111, "i1"), ItemEntry(222, "")>>, <<>>) :
        v \in CharVariants}

\* ------------------------------------------------------------------------
\* State
\* ------------------------------------------------------------------------
VARIABLES
    apiKey,       \* HEADERS["X-API-Key"] is non-empty
    clientCreds,  \* CLIENT_ID and CLIENT_SECRET are both non-empty
    character,    \* args.character
    tokensFile,   \* the file at TOKENS_PATH
    authHeader,   \* SESSION.headers["Authorization"]
    pc,           \* position of main()
    phase,        \* position of the bnet_get in progress
    reqLog,       \* outbound calls of the current or last top-level bnet_get
    reqStart,     \* tokensFile, authHeader and io.fileWrites when it began
    reqResult,    \* whether it returned (TRUE) or raised (FALSE)
    io,           \* counts over the run: reads and writes of the file, refresh
                  \* calls, top-level requests, failed responses
    membership, profile, char_id,
    idx,          \* equipped entries consumed by the item loop
    sidx,         \* sockets (or perks) consumed by the loop in progress
    cur,          \* locals of the item loop's current iteration
    results,      \* results["items"]
    outFile,      \* the file at args.out
    exitStatus,   \* -1 while running
    error,        \* what was printed on a failure
    pickIn, pickOut, clsIn, clsOut

netVars == <<tokensFile, authHeader, reqLog, reqStart, io>>
runVars == <<membership, profile, char_id, idx, sidx, cur, results, outFile, exitStatus, error>>
inVars == <<apiKey, clientCreds, character>>
fnVars == <<pickIn, pickOut, clsIn, clsOut>>
vars == <<inVars, netVars, runVars, pc, phase, reqResult, fnVars>>

\* ------------------------------------------------------------------------
\* Helpers of main()
\* ------------------------------------------------------------------------
NewCur == [icon |-> NoneStr, item_type |-> NoneStr, acc |-> NoCosmetics,
           perks |-> <<>>, perk_hashes |-> <<>>, itemName |-> NoneStr,
           shaderName |-> NoneStr, ornamentName |-> NoneStr, visiblePerks |-> <<>>]

Result(ok, err) == [ok |-> ok, err |-> err]

\* line 268-269: the equipped entries of the selected character
Equipped ==
    IF char_id \in DOMAIN profile.equipment THEN profile.equipment[char_id] ELSE <<>>

\* lines 272, 287 and 161: the socket list of an equipped entry
SocketsOf(it) ==
    IF it.itemInstanceId # "" /\ it.itemInstanceId \in DOMAIN profile.sockets
    THEN profile.sockets[it.itemInstanceId] ELSE <<>>

CurSockets == SocketsOf(Equipped[idx])

\* The definition hash the single-entity lookup at pc asks for.
EntityHash ==
    CASE pc \in {"icon", "name"}  -> Equipped[idx].itemHash
      [] pc \in {"find", "perks"} -> PlugHashOf(CurSockets[sidx])
      [] pc = "shname"            -> cur.acc.shader_hash
      [] pc = "orname"            -> cur.acc.ornament_hash
      [] pc = "pkname"            -> cur.perk_hashes[sidx]
      [] OTHER                    -> 0

\* The path bnet_get is called with at pc.
ReqPath ==
    CASE pc = "mems"    -> <<"GetMembershipsForCurrentUser", 0>>
      [] pc = "profile" -> <<"Profile", membership.membershipType>>
      [] OTHER          -> <<"Manifest", EntityHash>>

\* The "Response" payloads a successful call at pc may carry.
OkBodies ==
    CASE pc = "mems"    -> {[destinyMemberships |-> ms] : ms \in MembershipLists}
      [] pc = "profile" -> Profiles
      [] OTHER          -> {Catalog[EntityHash]}

\* friendly_item_name, given how get_entity ended
friendly_item_name(res, body, item_hash) ==
    IF res.ok /\ body.name # NoneStr THEN body.name ELSE Str(item_hash)

\* get_item_icon_and_type, given how get_entity ended
get_item_icon_and_type(res, body) ==
    IF res.ok
    THEN [icon |-> body.icon,
          item_type |-> IF body.type_name # <<>> THEN body.type_name ELSE body.tier_name]
    ELSE [icon |-> NoneStr, item_type |-> NoneStr]

\* Mutant: the names of an absent shader or ornament are str() of the hash.
Rec_StrNone ==
    [itemHash |-> Equipped[idx].itemHash,
     itemName |-> cur.itemName,
     itemType |-> cur.item_type,
     icon |-> cur.icon,
     instanceId |-> Equipped[idx].itemInstanceId,
     appliedShader |-> [itemHash |-> cur.acc.shader_hash,
                        name |-> IF cur.acc.shader_hash = 0 THEN Str(0) ELSE cur.shaderName],
     appliedOrnament |-> [itemHash |-> cur.acc.ornament_hash,
                          name |-> IF cur.acc.ornament_hash = 0 THEN Str(0)
                                   ELSE cur.ornamentName],
     visiblePerks |-> cur.visiblePerks]

\* lines 291-308
Rec ==
    [itemHash |-> Equipped[idx].itemHash,
     itemName |-> cur.itemName,
     itemType |-> cur.item_type,
     icon |-> cur.icon,
     instanceId |-> Equipped[idx].itemInstanceId,
     appliedShader |-> [itemHash |-> cur.acc.shader_hash, name |-> cur.shaderName],
     appliedOrnament |-> [itemHash |-> cur.acc.ornament_hash, name |-> cur.ornamentName],
     visiblePerks |-> cur.visiblePerks]

NoAuth == <<"<unset>", "">>

\* Mutant: the session keeps the header it had.
set_auth_header_Stale(access_token) == authHeader

\* SESSION.headers["Authorization"]: unset, or f"Bearer {access_token}"
set_auth_header(access_token) == <<"Bearer", access_token>>

NotWritten == [written |-> FALSE, characterId |-> "", items |-> <<>>]

\* Mutant: a BungieError is printed and the process ends normally.
ExitOf_Zero(exc) == IF exc = "BungieError" THEN 0 ELSE 1

\* lines 318-322 and 65: the exit status an exception ends the process with
ExitOf(exc) == IF exc = "BungieError" THEN 2 ELSE 1

\* An exception that leaves main().
Fatal(exc, msg) ==
    /\ pc' = "exit"
    /\ phase' = "idle"
    /\ exitStatus' = ExitOf(exc)
    /\ error' = msg
    /\ UNCHANGED <<membership, profile, char_id, idx, sidx, cur, results, outFile>>

\* ------------------------------------------------------------------------
\* main(), from the top to the first request (lines 243-254)
\* ------------------------------------------------------------------------
Start ==
    /\ pc = "start"
    /\ io' = [io EXCEPT !.fileReads = @ + 1]
    /\ UNCHANGED <<inVars, tokensFile, reqLog, reqStart, reqResult, fnVars>>
    /\ IF ~tokensFile.exists
       THEN Fatal("SystemExit", "MissingCredentialFile") /\ UNCHANGED authHeader
       ELSE IF Get(tokensFile.data, "access_token", "") = ""
       THEN Fatal("BungieError", "access_token missing") /\ UNCHANGED authHeader
       ELSE IF ~apiKey
       THEN Fatal("BungieError", "BUNGIE_API_KEY not set") /\ UNCHANGED authHeader
       ELSE /\ authHeader' = set_auth_header(tokensFile.data["access_token"])
            /\ pc' = "mems"
            /\ phase' = "get"
            /\ UNCHANGED runVars

\* ------------------------------------------------------------------------
\* What main() does with the outcome of the bnet_get it waits for at pc
\* ------------------------------------------------------------------------
AfterMems(res, body) ==
    IF ~res.ok THEN Fatal("BungieError", res.err)
    ELSE IF Len(body.destinyMemberships) = 0
    THEN Fatal("BungieError", "NoDestinyMembership")
    ELSE /\ membership' = body.destinyMemberships[1]
         /\ pc' = "profile"
         /\ phase' = "get"
         /\ UNCHANGED <<profile, char_id, idx, sidx, cur, results, outFile, exitStatus, error>>

AfterProfile(res, body) ==
    IF ~res.ok THEN Fatal("BungieError", res.err)
    ELSE LET r == pick_character_id(body, character) IN
         IF r.kind = "BungieError" THEN Fatal("BungieError", "NoCharacters")
         ELSE IF r.kind # "return" THEN Fatal(r.kind, "Traceback")
         ELSE /\ profile' = body
              /\ char_id' = r.id
              /\ pc' = "loop"
              /\ phase' = "idle"
              /\ UNCHANGED <<membership, idx, sidx, cur, results, outFile, exitStatus, error>>

AfterIcon(res, body) ==
    /\ cur' = [NewCur EXCEPT !.icon = get_item_icon_and_type(res, body).icon,
                             !.item_type = get_item_icon_and_type(res, body).item_type]
    /\ sidx' = 0
    /\ pc' = "find"
    /\ phase' = "idle"
    /\ UNCHANGED <<membership, profile, char_id, idx, results, outFile, exitStatus, error>>

\* Mutant: a failed plug lookup is not caught.
AfterFind_Abort(res, body) ==
    IF ~res.ok THEN Fatal("BungieError", res.err)
    ELSE /\ cur' = [cur EXCEPT !.acc = FindStep(cur.acc, EntityHash, body)]
         /\ phase' = "idle"
         /\ UNCHANGED <<pc, membership, profile, char_id, idx, sidx, results, outFile,
                        exitStatus, error>>

AfterFind(res, body) ==
    /\ cur' = IF res.ok THEN [cur EXCEPT !.acc = FindStep(cur.acc, EntityHash, body)] ELSE cur
    /\ phase' = "idle"
    /\ UNCHANGED <<pc, membership, profile, char_id, idx, sidx, results, outFile, exitStatus, error>>

AfterPerk(res, body) ==
    /\ cur' = IF res.ok THEN [cur EXCEPT !.perks = PerkStep(cur.perks, EntityHash, body)] ELSE cur
    /\ phase' = "idle"
    /\ UNCHANGED <<pc, membership, profile, char_id, idx, sidx, results, outFile, exitStatus, error>>

AfterName(res, body) ==
    /\ cur' = [cur EXCEPT !.itemName = friendly_item_name(res, body, EntityHash)]
    /\ pc' = "shname"
    /\ phase' = "idle"
    /\ UNCHANGED <<membership, profile, char_id, idx, sidx, results, outFile, exitStatus, error>>

AfterShaderName(res, body) ==
    /\ cur' = [cur EXCEPT !.shaderName = friendly_item_name(res, body, EntityHash)]
    /\ pc' = "orname"
    /\ phase' = "idle"
    /\ UNCHANGED <<membership, profile, char_id, idx, sidx, results, outFile, exitStatus, error>>

AfterOrnamentName(res, body) ==
    /\ cur' = [cur EXCEPT !.ornamentName = friendly_item_name(res, body, EntityHash)]
    /\ sidx' = 0
    /\ pc' = "pkname"
    /\ phase' = "idle"
    /\ UNCHANGED <<membership, profile, char_id, idx, results, outFile, exitStatus, error>>

AfterPerkName(res, body) ==
    /\ cur' = [cur EXCEPT !.visiblePerks =
                  Append(@, [itemHash |-> EntityHash,
                             name |-> friendly_item_name(res, body, EntityHash)])]
    /\ phase' = "idle"
    /\ UNCHANGED <<pc, membership, profile, char_id, idx, sidx, results, outFile, exitStatus, error>>

\* bnet_get returns body (res.ok) or raises BungieError(res.err) to its caller.
Return(res, body) ==
    /\ reqResult' = res.ok
    /\ CASE pc = "mems"    -> AfterMems(res, body)
         [] pc = "profile" -> AfterProfile(res, body)
         [] pc = "icon"    -> AfterIcon(res, body)
         [] pc = "find"    -> AfterFind(res, body)
         [] pc = "perks"   -> AfterPerk(res, body)
         [] pc = "name"    -> AfterName(res, body)
         [] pc = "shname"  -> AfterShaderName(res, body)
         [] pc = "orname"  -> AfterOrnamentName(res, body)
         [] pc = "pkname"  -> AfterPerkName(res, body)

\* ------------------------------------------------------------------------
\* bnet_get (lines 94-113) and oauth_refresh (lines 77-91)
\* ------------------------------------------------------------------------
Statuses == {"ok", "unauthorized", "http_error", "app_error"}

\* An outbound call: the endpoint, the path, what it carries (the
\* Authorization header, or the refresh token of a refresh), the answer's
\* status and, for a refresh, the access token the answer holds.
Call(ep, path, token, status, got) ==
    [ep |-> ep, path |-> path, token |-> token, status |-> status, got |-> got]

RefreshPath == <<"oauth/token", 0>>

\* The BungieError a response other than a success raises (lines 107-112).
ErrOf(status) == IF status = "app_error" THEN "Bungie error"
                 ELSE IF status = "unauthorized" THEN "HTTP 401" ELSE "HTTP 5xx"

NoBody == LookupFailed

Faulted == [io EXCEPT !.faults = @ + 1]

\* Mutant: the nested call refreshes and retries again.
Respond_AlwaysRetry(status, retry_on_401) ==
    IF status = "unauthorized"
    THEN /\ phase' = "refresh"
         /\ UNCHANGED <<pc, reqResult, runVars>>
    ELSE IF status = "ok"
    THEN \E body \in OkBodies : Return(Result(TRUE, ""), body)
    ELSE Return(Result(FALSE, ErrOf(status)), NoBody)

\* Lines 97-113: what bnet_get does with the response to its SESSION.get.
Respond(status, retry_on_401) ==
    IF status = "unauthorized" /\ retry_on_401
    THEN /\ phase' = "refresh"
         /\ UNCHANGED <<pc, reqResult, runVars>>
    ELSE IF status = "ok"
    THEN \E body \in OkBodies : Return(Result(TRUE, ""), body)
    ELSE Return(Result(FALSE, ErrOf(status)), NoBody)

\* The first SESSION.get of a top-level bnet_get (retry_on_401 = True).
BnetGet ==
    /\ phase = "get"
    /\ \E status \in Statuses :
        /\ status # "ok" => io.faults < MaxFaults
        /\ reqLog' = <<Call("target", ReqPath, authHeader, status, Absent)>>
        /\ reqStart' = [file |-> tokensFile, auth |-> authHeader, writes |-> io.fileWrites]
        /\ io' = IF status = "ok" THEN [io EXCEPT !.requests = @ + 1]
                 ELSE [io EXCEPT !.requests = @ + 1, !.faults = @ + 1]
        /\ UNCHANGED <<inVars, tokensFile, authHeader, fnVars>>
        /\ Respond(status, TRUE)

\* Mutant: a failed refresh is swallowed and the request retried.
RefreshFailed_Retry(msg) ==
    /\ phase' = "retry"
    /\ UNCHANGED <<tokensFile, authHeader, pc, reqResult, runVars>>

\* oauth_refresh raised: line 100 lets the BungieError through to the caller.
RefreshFailed(msg) ==
    /\ UNCHANGED <<tokensFile, authHeader>>
    /\ Return(Result(FALSE, msg), NoBody)

\* Lines 99-104: load_tokens, oauth_refresh and, when it succeeds, the update
\* of the record, save_tokens and set_auth_header.
Refresh ==
    /\ phase = "refresh"
    /\ UNCHANGED <<inVars, reqStart, fnVars>>
    /\ IF ~tokensFile.exists
       THEN /\ Fatal("SystemExit", "MissingCredentialFile")
            /\ io' = [io EXCEPT !.fileReads = @ + 1]
            /\ UNCHANGED <<tokensFile, authHeader, reqLog, reqResult>>
       ELSE IF ~clientCreds
       THEN /\ io' = [io EXCEPT !.fileReads = @ + 1]
            /\ reqLog' = reqLog
            /\ RefreshFailed("CLIENT_ID/CLIENT_SECRET missing")
       ELSE \E status \in {"ok", "http_error"} :
            /\ status # "ok" => io.faults < MaxFaults
            /\ IF status = "ok"
               THEN \E new_tokens \in RefreshBodies :
                    LET tokens == Update(tokensFile.data, new_tokens) IN
                    /\ reqLog' = Append(reqLog,
                           Call("refresh", RefreshPath,
                                <<"refresh_token", Get(tokensFile.data, "refresh_token", "")>>, status,
                                new_tokens["access_token"]))
                    /\ tokensFile' = [tokensFile EXCEPT !.data = tokens]
                    /\ authHeader' = set_auth_header(tokens["access_token"])
                    /\ io' = [io EXCEPT !.fileReads = @ + 1, !.fileWrites = @ + 1,
                                        !.refreshCalls = @ + 1]
                    /\ phase' = "retry"
                    /\ UNCHANGED <<pc, reqResult, runVars>>
               ELSE /\ reqLog' = Append(reqLog,
                           Call("refresh", RefreshPath,
                                <<"refresh_token", Get(tokensFile.data, "refresh_token", "")>>, status, Absent))
                    /\ io' = [io EXCEPT !.fileReads = @ + 1, !.refreshCalls = @ + 1,
                                        !.faults = @ + 1]
                    /\ RefreshFailed("Refresh failed")

\* The SESSION.get of the nested bnet_get (retry_on_401 = False).
Retry ==
    /\ phase = "retry"
    /\ \E status \in Statuses :
        /\ status # "ok" => io.faults < MaxFaults
        /\ reqLog' = Append(reqLog, Call("target", ReqPath, authHeader, status, Absent))
        /\ io' = IF status = "ok" THEN io ELSE Faulted
        /\ UNCHANGED <<inVars, tokensFile, authHeader, reqStart, fnVars>>
        /\ Respond(status, FALSE)

\* ------------------------------------------------------------------------
\* main(): the item loop (lines 281-309) and the export (lines 311-314)
\* ------------------------------------------------------------------------
quiet == <<inVars, netVars, reqResult, fnVars>>

\* for it in equipped: ... if not item_hash: continue
ItemLoop ==
    /\ pc = "loop"
    /\ UNCHANGED <<quiet, membership, profile, char_id, sidx, cur, results, outFile,
                   exitStatus, error>>
    /\ IF idx >= Len(Equipped)
       THEN pc' = "write" /\ phase' = "idle" /\ idx' = idx
       ELSE /\ idx' = idx + 1
            /\ IF Equipped[idx + 1].itemHash = 0
               THEN pc' = "loop" /\ phase' = "idle"
               ELSE pc' = "icon" /\ phase' = "get"

\* for s in sockets, in find_applied_shader_and_ornament (lines 163-170)
FindLoop ==
    /\ pc = "find" /\ phase = "idle"
    /\ UNCHANGED <<quiet, membership, profile, char_id, idx, cur, results, outFile,
                   exitStatus, error>>
    /\ IF sidx >= Len(CurSockets)
       THEN pc' = "perks" /\ phase' = "idle" /\ sidx' = 0
       ELSE /\ sidx' = sidx + 1
            /\ pc' = pc
            /\ phase' = IF PlugHashOf(CurSockets[sidx + 1]) = 0 THEN "idle" ELSE "get"

\* for s in sockets, in extract_visible_perks (lines 195-199), then perks[:6]
\* and the first lookup of the record, friendly_item_name(item_hash)
PerkLoop ==
    /\ pc = "perks" /\ phase = "idle"
    /\ UNCHANGED <<quiet, membership, profile, char_id, idx, results, outFile,
                   exitStatus, error>>
    /\ IF sidx >= Len(CurSockets)
       THEN /\ cur' = [cur EXCEPT !.perk_hashes = Truncate(cur.perks)]
            /\ pc' = "name" /\ phase' = "get" /\ sidx' = 0
       ELSE /\ sidx' = sidx + 1
            /\ pc' = pc
            /\ cur' = cur
            /\ phase' = IF PlugHashOf(CurSockets[sidx + 1]) = 0 THEN "idle" ELSE "get"

\* line 299: friendly_item_name(shader_hash) if shader_hash else None
ShaderName ==
    /\ pc = "shname" /\ phase = "idle"
    /\ UNCHANGED <<quiet, membership, profile, char_id, idx, sidx, cur, results, outFile,
                   exitStatus, error>>
    /\ IF cur.acc.shader_hash # 0
       THEN pc' = pc /\ phase' = "get"
       ELSE pc' = "orname" /\ phase' = "idle"

\* line 303
OrnamentName ==
    /\ pc = "orname" /\ phase = "idle"
    /\ UNCHANGED <<quiet, membership, profile, char_id, idx, cur, results, outFile,
                   exitStatus, error>>
    /\ IF cur.acc.ornament_hash # 0
       THEN pc' = pc /\ phase' = "get" /\ sidx' = sidx
       ELSE pc' = "pkname" /\ phase' = "idle" /\ sidx' = 0

\* lines 305-309: a name per perk, then results["items"].append(rec)
PerkNameLoop ==
    /\ pc = "pkname" /\ phase = "idle"
    /\ UNCHANGED <<quiet, membership, profile, char_id, idx, cur, outFile, exitStatus, error>>
    /\ IF sidx >= Len(cur.perk_hashes)
       THEN /\ results' = Append(results, Rec)
            /\ pc' = "loop" /\ phase' = "idle" /\ sidx' = sidx
       ELSE /\ sidx' = sidx + 1
            /\ pc' = pc /\ phase' = "get"
            /\ results' = results

\* lines 311-314, and the normal end of the process
WriteOutput ==
    /\ pc = "write"
    /\ outFile' = [written |-> TRUE, characterId |-> char_id, items |-> results]
    /\ exitStatus' = 0
    /\ pc' = "exit"
    /\ UNCHANGED <<quiet, phase, membership, profile, char_id, idx, sidx, cur, results, error>>

\* ------------------------------------------------------------------------
\* Inputs of the functions checked on their own
\* ------------------------------------------------------------------------
CharDataPool == {NoCharData, CharData(D1), CharData(D2), CharData(D3), CharData(BadDate)}

PickChoices == {"latest", "c2", "zz"}

ClsHashes == {7, 8}
ClsSocketPool == {Socket(7, 8), Socket(0, 8), Socket(0, 0)}

\* ent[h] is the position in DefPool of the definition get_entity resolves h
\* to, or 0 when the lookup fails.
EntOf(e) == [h \in DOMAIN e |-> IF e[h] = 0 THEN LookupFailed ELSE DefPool[e[h]]]

\* ------------------------------------------------------------------------
\* The run
\* ------------------------------------------------------------------------
ClsStart == [acc |-> NoCosmetics, perks |-> <<>>, perk_hashes |-> <<>>]

FnIdle ==
    /\ pickIn = [profile |-> NoProfile, choice |-> ""]
    /\ pickOut = Raised("pending")
    /\ clsIn = [sockets |-> <<>>, ent |-> [h \in ClsHashes |-> 0]]
    /\ clsOut = ClsStart

RunIdle ==
    /\ apiKey = FALSE /\ clientCreds = FALSE /\ character = ""
    /\ tokensFile = NoFile
    /\ authHeader = NoAuth
    /\ pc = "none" /\ phase = "idle"
    /\ reqLog = <<>>
    /\ reqStart = [file |-> NoFile, auth |-> NoAuth, writes |-> 0]
    /\ reqResult = TRUE
    /\ io = [fileReads |-> 0, fileWrites |-> 0, refreshCalls |-> 0, requests |-> 0, faults |-> 0]
    /\ membership = NoMembership
    /\ profile = NoProfile
    /\ char_id = ""
    /\ idx = 0 /\ sidx = 0
    /\ cur = NewCur
    /\ results = <<>>
    /\ outFile = NotWritten
    /\ exitStatus = -1
    /\ error = ""

Init ==
    /\ apiKey \in BOOLEAN
    /\ clientCreds \in BOOLEAN
    /\ character \in {"latest", "c2"}
    /\ tokensFile \in TokenFiles
    /\ authHeader = NoAuth
    /\ pc = "start" /\ phase = "idle"
    /\ reqLog = <<>>
    /\ reqStart = [file |-> tokensFile, auth |-> NoAuth, writes |-> 0]
    /\ reqResult = TRUE
    /\ io = [fileReads |-> 0, fileWrites |-> 0, refreshCalls |-> 0, requests |-> 0, faults |-> 0]
    /\ membership = NoMembership
    /\ profile = NoProfile
    /\ char_id = ""
    /\ idx = 0 /\ sidx = 0
    /\ cur = NewCur
    /\ results = <<>>
    /\ outFile = NotWritten
    /\ exitStatus = -1
    /\ error = ""
    /\ FnIdle

Next ==
    \/ Start
    \/ BnetGet
    \/ Refresh
    \/ Retry
    \/ ItemLoop
    \/ FindLoop
    \/ PerkLoop
    \/ ShaderName
    \/ OrnamentName
    \/ PerkNameLoop
    \/ WriteOutput

Spec == Init /\ [][Next]_vars

\* The process is sequential and every call blocks until it returns: whenever
\* a step is possible, one is taken.
FairSpec == Spec /\ WF_vars(Next)

\* ------------------------------------------------------------------------
\* pick_character_id on its own
\* ------------------------------------------------------------------------
PickInit ==
    /\ RunIdle
    /\ \E ids \in BoundedSeq(CharIds, MaxChars), chars \in [CharIds -> CharDataPool],
          c \in PickChoices :
          pickIn = [profile |-> [characterIds |-> ids, characters |-> chars], choice |-> c]
    /\ pickOut = Raised("pending")
    /\ clsIn = [sockets |-> <<>>, ent |-> [h \in ClsHashes |-> 0]]
    /\ clsOut = ClsStart

PickApply ==
    /\ pickOut.kind = "pending"
    /\ pickOut' = pick_character_id(pickIn.profile, pickIn.choice)
    /\ UNCHANGED <<inVars, netVars, runVars, pc, phase, reqResult, pickIn, clsIn, clsOut>>

SpecPick == PickInit /\ [][PickApply]_vars

\* ------------------------------------------------------------------------
\* find_applied_shader_and_ornament and extract_visible_perks on their own:
\* both loops run over a socket list that grows by one socket per step, and
\* clsOut holds what the two functions return for the list so far.
\* ------------------------------------------------------------------------
ClsInit ==
    /\ RunIdle
    /\ pickIn = [profile |-> NoProfile, choice |-> ""]
    /\ pickOut = Raised("pending")
    /\ \E e \in [ClsHashes -> 0..Len(DefPool)] : clsIn = [sockets |-> <<>>, ent |-> e]
    /\ clsOut = ClsStart

\* One iteration of each loop on socket s (lines 163-185 and 195-211), and
\* the perks[:6] of line 212.
ClsIter(out, s, ent) ==
    LET h == PlugHashOf(s) IN
    IF h = 0 \/ ent[h] = LookupFailed THEN out
    ELSE LET perks == PerkStep(out.perks, h, ent[h]) IN
         [acc |-> FindStep(out.acc, h, ent[h]),
          perks |-> perks,
          perk_hashes |-> Truncate(perks)]

Classify ==
    /\ Len(clsIn.sockets) < MaxClsSockets
    /\ \E s \in ClsSocketPool :
        /\ clsIn' = [clsIn EXCEPT !.sockets = Append(@, s)]
        /\ clsOut' = ClsIter(clsOut, s, EntOf(clsIn.ent))
    /\ UNCHANGED <<inVars, netVars, runVars, pc, phase, reqResult, pickIn, pickOut>>

SpecCls == ClsInit /\ [][Classify]_vars

\* ========================================================================
\* Properties
\* ========================================================================
ReqCalls(ep) == {i \in DOMAIN reqLog : reqLog[i].ep = ep}

\* A top-level bnet_get has returned or raised, and no other has begun.
ReqDone == phase \in {"idle", "get"} /\ reqLog # <<>>

LastCall == reqLog[Len(reqLog)]

RefreshedOk == \E i \in DOMAIN reqLog : reqLog[i].ep = "refresh" /\ reqLog[i].status = "ok"

\* ------------------------------------------------------------------------
C1_Case ==
    /\ ReqDone
    /\ Len(reqLog) > 1
    /\ reqLog[1].status = "unauthorized"
    /\ RefreshedOk
    /\ LastCall.ep = "target" /\ LastCall.status = "ok"

\* C1: a request whose first response is 401, whose refresh succeeds and whose
\* retry succeeds makes exactly two calls to the target path and one to the
\* refresh endpoint; the credential file is rewritten, its access_token is
\* the one the refresh returned, and the retry carries that token.
C1_Thm ==
    C1_Case =>
        /\ Cardinality(ReqCalls("target")) = 2
        /\ Cardinality(ReqCalls("refresh")) = 1
        /\ \A i \in ReqCalls("target") : reqLog[i].path = reqLog[1].path
        /\ \A i \in ReqCalls("refresh") :
            /\ reqLog[i].path = RefreshPath
            /\ tokensFile.data["access_token"] = reqLog[i].got
            /\ LastCall.token = <<"Bearer", reqLog[i].got>>
        /\ io.fileWrites = reqStart.writes + 1
        /\ reqResult

C1_Witness ==
    /\ C1_Case
    /\ reqLog[2].got # reqStart.file.data["access_token"]
    /\ reqLog[1].token # LastCall.token

\* ------------------------------------------------------------------------
C2_Case ==
    /\ ReqDone
    /\ Len(reqLog) > 1
    /\ reqLog[1].status = "unauthorized"
    /\ RefreshedOk
    /\ LastCall.ep = "target" /\ LastCall.status = "unauthorized"

C2_FileIsRefreshed ==
    /\ io.fileWrites = reqStart.writes + 1
    /\ \A i \in ReqCalls("refresh") : tokensFile.data["access_token"] = reqLog[i].got

\* C2 as claimed: whatever the request (memberships, profile or a definition
\* lookup), 401 on the original and on the retried call ends the run with an
\* authentication failure, the file holding the refreshed record.
C2_Claim ==
    C2_Case =>
        /\ pc = "exit" /\ exitStatus \notin {-1, 0} /\ error = "HTTP 401"
        /\ C2_FileIsRefreshed

\* C2 amended: that holds of the memberships and profile requests; a
\* definition lookup that gets 401 twice raises to its caller, which catches
\* it, and the run goes on with no failure reported; in both cases the file
\* holds the refreshed record.
C2_Thm ==
    C2_Case =>
        /\ C2_FileIsRefreshed
        /\ ~reqResult
        /\ IF reqLog[1].path[1] \in {"GetMembershipsForCurrentUser", "Profile"}
           THEN pc = "exit" /\ exitStatus = 2 /\ error = "HTTP 401" /\ ~outFile.written
           ELSE exitStatus \in {-1, 0} /\ error = ""

C2_Witness ==
    /\ C2_Case
    /\ reqLog[1].path[1] = "Profile"
    /\ pc = "exit"

\* ------------------------------------------------------------------------
C3_Lacks(f) ==
    f.exists /\ (Get(f.data, "access_token", "") = "" \/ Get(f.data, "refresh_token", "") = "")

\* C3 as claimed: when the credential record lacks access_token or
\* refresh_token, no network call is made and the run fails.
C3_Claim ==
    C3_Lacks(reqStart.file) => reqLog = <<>> /\ (pc = "exit" => exitStatus \notin {-1, 0})

\* ------------------------------------------------------------------------
C4_Errors == {"MissingCredentialFile", "access_token missing", "BUNGIE_API_KEY not set",
              "HTTP 401", "HTTP 5xx", "Bungie error", "Refresh failed",
              "CLIENT_ID/CLIENT_SECRET missing", "NoDestinyMembership", "NoCharacters",
              "Traceback"}

C4_AllProcessed ==
    /\ idx = Len(Equipped)
    /\ Len(results) = Cardinality({i \in DOMAIN Equipped : Equipped[i].itemHash # 0})

\* C4: a run that ends in a fatal error never writes the output file and
\* exits non-zero; the output file is written only once every equipped item
\* is processed, and only then is exit status 0 reached.
C4_Thm ==
    /\ error # "" => /\ error \in C4_Errors
                     /\ pc = "exit"
                     /\ exitStatus \in {1, 2}
                     /\ ~outFile.written
    /\ outFile.written => /\ C4_AllProcessed
                          /\ outFile.items = results
                          /\ exitStatus = 0
    /\ exitStatus = 0 => outFile.written
    /\ pc = "exit" => (error # "" \/ exitStatus = 0)

C4_Witness == pc = "exit" /\ error = "NoCharacters" /\ io.requests = 2

\* ------------------------------------------------------------------------
C5_ItemPcs == {"loop", "icon", "find", "perks", "name", "shname", "orname", "pkname"}

\* The decimal digits of the hashes of the model.
C5_Raw(h) ==
    CASE h = 111 -> <<"1", "1", "1">>
      [] h = 222 -> <<"2", "2", "2">>
      [] h = 7   -> <<"7">>
      [] h = 8   -> <<"8">>
      [] h = 9   -> <<"9">>

C5_Returns == phase # "idle" /\ phase' = "idle"

\* Nothing that happens while the items are processed ends the run.
C5_Continue ==
    pc \in C5_ItemPcs => pc' \in C5_ItemPcs \cup {"write"} /\ exitStatus' = -1 /\ error' = ""

\* A plug whose definition fails to resolve is skipped.
C5_Skip ==
    (pc \in {"find", "perks"} /\ C5_Returns /\ ~reqResult') =>
        /\ pc' = pc /\ sidx' = sidx /\ idx' = idx
        /\ cur' = cur
        /\ results' = results

\* A name that fails to resolve is the hash in decimal.
C5_Names ==
    /\ (pc = "name" /\ pc' = "shname" /\ ~reqResult') =>
            cur'.itemName = C5_Raw(Equipped[idx].itemHash)
    /\ (pc = "shname" /\ pc' = "orname" /\ phase # "idle" /\ ~reqResult') =>
            cur'.shaderName = C5_Raw(cur.acc.shader_hash)
    /\ (pc = "orname" /\ pc' = "pkname" /\ phase # "idle" /\ ~reqResult') =>
            cur'.ornamentName = C5_Raw(cur.acc.ornament_hash)
    /\ (pc = "pkname" /\ C5_Returns /\ ~reqResult') =>
            cur'.visiblePerks = Append(cur.visiblePerks,
                [itemHash |-> cur.perk_hashes[sidx], name |-> C5_Raw(cur.perk_hashes[sidx])])

\* Every equipped entry with an item hash passed so far has its record.
C5_Appended ==
    pc \in {"loop", "write"} =>
        Len(results) = Cardinality({i \in 1..idx : Equipped[i].itemHash # 0})

\* C5: a plug definition that fails to resolve during classification never
\* aborts the run: the socket is skipped, the other sockets and items are
\* processed, the item's record is appended; a failed name lookup yields the
\* raw numeric identifier.
C5_Thm == []C5_Appended /\ [][C5_Continue /\ C5_Skip /\ C5_Names]_vars

C5_Witness ==
    /\ pc = "find" /\ phase = "idle" /\ ~reqResult
    /\ sidx >= 1 /\ sidx < Len(CurSockets)
    /\ PlugHashOf(CurSockets[sidx]) # 0
    /\ reqLog[1].path = <<"Manifest", PlugHashOf(CurSockets[sidx])>>

\* ------------------------------------------------------------------------
C6_Parsed ==
    {i \in DOMAIN pickIn.profile.characterIds :
        LET cdata == pickIn.profile.characters[pickIn.profile.characterIds[i]] IN
        cdata.present /\ Parses(cdata.dateLastPlayed)}

C6_Time(i) == Mktime(pickIn.profile.characters[pickIn.profile.characterIds[i]].dateLastPlayed)

C6_Expected ==
    IF Len(pickIn.profile.characterIds) = 0 THEN Raised("BungieError")
    ELSE IF pickIn.choice # "latest" THEN Returned(pickIn.choice)
    ELSE IF C6_Parsed = {} THEN Returned(pickIn.profile.characterIds[1])
    ELSE Returned(pickIn.profile.characterIds[
            CHOOSE i \in C6_Parsed :
                \A j \in C6_Parsed :
                    C6_Time(j) < C6_Time(i) \/ (C6_Time(j) = C6_Time(i) /\ i <= j)])

\* C6 as claimed: "latest" returns the character with the greatest
\* last-played timestamp, the first of them on a tie, and the first listed id
\* when no timestamp parses; another selector is returned verbatim; an empty
\* character-id list fails with NoCharacters.
C6_Claim == pickOut.kind # "pending" => pickOut = C6_Expected

\* ------------------------------------------------------------------------
C7_Plug(s) == IF s.plugItemHash # 0 THEN s.plugItemHash ELSE s.plugHash

C7_ShaderTest(d) == Contains(Lower(d.cat_id), s_shader) \/ Lower(d.type_name) = s_shader
C7_OrnamentTest(d) ==
    Contains(Lower(d.type_name), s_ornament) \/ Contains(Lower(d.cat_id), s_skin)
C7_PerkTest(d) ==
    \E key \in {<<"i","n","t","r","i","n","s","i","c","s">>, <<"b","a","r","r","e","l","s">>,
                <<"m","a","g","a","z","i","n","e","s">>, <<"f","r","a","m","e","s">>,
                <<"t","r","a","i","t","s">>, <<"o","r","i","g","i","n">>} :
        Contains(Lower(d.cat_id), key)

\* The positions in DefPool of the definitions that meet each test.
C7_Shaders == {n \in DOMAIN DefPool : C7_ShaderTest(DefPool[n])}
C7_Ornaments == {n \in DOMAIN DefPool : C7_OrnamentTest(DefPool[n])}
C7_PerkDefs ==
    {n \in DOMAIN DefPool : C7_PerkTest(DefPool[n])} \ (C7_Shaders \cup C7_Ornaments)

\* The sockets whose plug resolves to a definition of the set S.
C7_Sockets(S) ==
    {k \in DOMAIN clsIn.sockets :
        /\ C7_Plug(clsIn.sockets[k]) # 0
        /\ clsIn.ent[C7_Plug(clsIn.sockets[k])] \in S}

C7_First(S) ==
    IF C7_Sockets(S) = {} THEN 0
    ELSE C7_Plug(clsIn.sockets[CHOOSE k \in C7_Sockets(S) : \A j \in C7_Sockets(S) : k <= j])

C7_Perks ==
    LET I == C7_Sockets(C7_PerkDefs)
        n == IF Cardinality(I) < 6 THEN Cardinality(I) ELSE 6
    IN  [k \in 1..n |->
            C7_Plug(clsIn.sockets[CHOOSE i \in I : Cardinality({j \in I : j < i}) = k - 1])]

C7_IsExample(k, cat, type) ==
    /\ C7_Plug(clsIn.sockets[k]) # 0
    /\ clsIn.ent[C7_Plug(clsIn.sockets[k])] # 0
    /\ DefPool[clsIn.ent[C7_Plug(clsIn.sockets[k])]].cat_id = cat
    /\ DefPool[clsIn.ent[C7_Plug(clsIn.sockets[k])]].type_name = type

\* C7: the shader is the first plug in socket order that meets the shader
\* test, the ornament the first that meets the ornament test, the perks the
\* first 6 plugs of a perk category that meet neither test; a lone
\* "exotic_all_skins"/"Ornament" plug is the ornament only, a lone
\* "weapon_frames" plug a perk only.
C7_Thm ==
    /\ clsOut.acc.shader_hash = C7_First(C7_Shaders)
    /\ clsOut.acc.ornament_hash = C7_First(C7_Ornaments)
    /\ clsOut.perk_hashes = C7_Perks
    /\ (Len(clsIn.sockets) = 1 /\ C7_IsExample(1, s_exotic_all_skins, s_Ornament)) =>
            /\ clsOut.acc = [shader_hash |-> 0, ornament_hash |-> C7_Plug(clsIn.sockets[1])]
            /\ clsOut.perk_hashes = <<>>
    /\ (Len(clsIn.sockets) = 1 /\ C7_IsExample(1, s_weapon_frames, <<>>)) =>
            /\ clsOut.acc = [shader_hash |-> 0, ornament_hash |-> 0]
            /\ clsOut.perk_hashes = <<C7_Plug(clsIn.sockets[1])>>

C7_Witness ==
    /\ Cardinality(C7_Sockets(C7_PerkDefs)) > 6
    /\ Len(clsOut.perk_hashes) = 6
    /\ clsOut.perk_hashes[1] # clsOut.perk_hashes[6]
    /\ clsOut.acc.shader_hash = 0

\* ------------------------------------------------------------------------
C8_Equipped ==
    IF outFile.characterId \in DOMAIN profile.equipment
    THEN profile.equipment[outFile.characterId] ELSE <<>>

C8_Sockets(it) ==
    IF it.itemInstanceId \in DOMAIN profile.sockets
    THEN profile.sockets[it.itemInstanceId] ELSE <<>>

C8_NoPlugs ==
    \A i \in DOMAIN C8_Equipped : \A k \in DOMAIN C8_Sockets(C8_Equipped[i]) :
        /\ C8_Sockets(C8_Equipped[i])[k].plugItemHash = 0
        /\ C8_Sockets(C8_Equipped[i])[k].plugHash = 0

C8_Kept == {i \in DOMAIN C8_Equipped : C8_Equipped[i].itemHash # 0}

C8_Nth(k) == CHOOSE i \in C8_Kept : Cardinality({j \in C8_Kept : j < i}) = k - 1

C8_Null == [itemHash |-> 0, name |-> NoneStr]

C9_Claim == io.fileWrites <= 1 /\ io.refreshCalls <= 1

\* C9 amended: each authorized request writes the record at most once, on
\* its own refresh, and makes at most one refresh call; over a run there are
\* no more writes than refresh calls, no more refresh calls than requests,
\* and, after the read at startup, no more reads than requests.
C9_Thm ==
    /\ io.fileWrites - reqStart.writes <= 1
    /\ Cardinality(ReqCalls("refresh")) <= 1
    /\ io.fileWrites <= io.refreshCalls
    /\ io.refreshCalls <= io.requests
    /\ io.fileReads <= 1 + io.requests

C9_Witness == io.fileWrites = 2 /\ io.refreshCalls = 2 /\ exitStatus = 0

\* ------------------------------------------------------------------------
C10_RefreshFailed ==
    \/ \E i \in DOMAIN reqLog : reqLog[i].ep = "refresh" /\ reqLog[i].status # "ok"
    \/ ReqDone /\ Len(reqLog) = 1 /\ reqLog[1].status = "unauthorized"

C10_Bounded ==
    /\ Cardinality(ReqCalls("target")) <= 2
    /\ Cardinality(ReqCalls("refresh")) <= 1
    /\ C10_RefreshFailed =>
        /\ Cardinality(ReqCalls("target")) = 1
        /\ phase \notin {"refresh", "retry"}
        /\ ~reqResult
        /\ tokensFile = reqStart.file
        /\ authHeader = reqStart.auth

\* C10: a top-level bnet_get terminates, with at most two calls to the
\* target and at most one refresh call; when the refresh fails the target is
\* not called again and neither the credential file nor the session's token
\* changes.
C10_Thm == []C10_Bounded /\ <>[](phase = "idle")

C10_Witness ==
    /\ ReqDone
    /\ Len(reqLog) = 2
    /\ reqLog[2].ep = "refresh" /\ reqLog[2].status # "ok"

====
